---- MODULE Spec2Model ----
(***************************************************************************)
(* A model of the neural-network example of HiCR:                          *)
(*   examples/neuralNetwork/python/dataset/dataset.py  (dataset exporter)  *)
(*   examples/neuralNetwork/python/model/network.py    (model, training    *)
(*                                                      loop, ONNX export) *)
(* Two specifications share the variables below:                           *)
(*   Spec         one run of either script: dataset.py (and its re-run on  *)
(*                the unchanged dataset) or network.py's __main__          *)
(*   SpecForward  NeuralNetwork.forward applied to a network whose layer   *)
(*                widths are drawn from a set of configurations            *)
(***************************************************************************)
EXTENDS Integers, Sequences, FiniteSets, TLC

(***************************************************************************)
(* Bounds of the model.                                                    *)
(***************************************************************************)
\* Longest split the exporter is run on (MNIST's test split has 10,000).
MaxSamples == 3
\* Height and width of a sample's image (MNIST: 28 x 28).
ImgRows == 2
ImgCols == 3
\* Capacity, in bytes, of a buffered binary file object (CPython: 8192).
BufferBytes == 8

(***************************************************************************)
(* Program constants.                                                      *)
(***************************************************************************)
\* dataset.py:36   if idx % 100 == 0
ProgressEvery == 100
\* dataset.py:9    ToTensor divides a uint8 pixel by 255
PixelMax == 255

\* The content of a file that does not exist (no byte is negative).
NoFile == << 0 - 1 >>

(***************************************************************************)
(* Bytes, struct.pack and the float32 values of a sample.                  *)
(***************************************************************************)
RECURSIVE Pow2(_)
Pow2(n) == IF n = 0 THEN 1 ELSE 2 * Pow2(n - 1)

\* The 4 bytes of a 32-bit pattern, least significant first.
LittleEndian4(v) ==
    << v % 256, (v \div 256) % 256, (v \div 65536) % 256, (v \div 16777216) % 256 >>

Reverse4(b) == << b[4], b[3], b[2], b[1] >>

\* struct.pack with a native-order format: 4 bytes in the platform's order.
NativeBytes(order, v) ==
    IF order = "little" THEN LittleEndian4(v) ELSE Reverse4(LittleEndian4(v))

\* struct.pack('H', label): label as an unsigned 16-bit integer.
pack_H(order, label) ==
    IF order = "little" THEN << label % 256, (label \div 256) % 256 >>
    ELSE << (label \div 256) % 256, label % 256 >>

\* struct.pack('I', label): label as an unsigned 32-bit integer.
pack_I(order, label) == NativeBytes(order, label)

\* struct.pack('f', value): value, a float32, as its IEEE-754 bit pattern.
pack_f(order, bits) == NativeBytes(order, bits)

\* struct.unpack of 4 native-order bytes (used to decode the written files).
unpack4(order, b) ==
    LET l == IF order = "little" THEN b ELSE Reverse4(b)
    IN  l[1] + 256 * l[2] + 65536 * l[3] + 16777216 * l[4]

\* The least s with p * 2^s >= 255, for 1 <= p < 255: p/255 lies in
\* [2^-s, 2^(1-s)).
RECURSIVE NormShift(_, _)
NormShift(p, s) == IF p * Pow2(s) >= PixelMax THEN s ELSE NormShift(p, s + 1)

\* Long division: n further quotient bits of r/255 appended to q.
\* Returns <<quotient, remainder>>.
RECURSIVE DivBits(_, _, _)
DivBits(q, r, n) ==
    IF n = 0 THEN << q, r >>
    ELSE IF 2 * r >= PixelMax THEN DivBits(2 * q + 1, 2 * r - PixelMax, n - 1)
         ELSE DivBits(2 * q, 2 * r, n - 1)

\* transforms.ToTensor on one uint8 pixel p: the float32 nearest to p/255
\* (round to nearest, ties to even), as its IEEE-754 bit pattern.
ToTensor(p) ==
    IF p = 0 THEN 0
    ELSE IF p = PixelMax THEN 127 * Pow2(23)
    ELSE LET s  == NormShift(p, 1)
             qr == DivBits(1, p * Pow2(s) - PixelMax, 23)
             q  == IF 2 * qr[2] > PixelMax THEN qr[1] + 1 ELSE qr[1]
         IN  (127 - s) * Pow2(23) + (q - Pow2(23))

\* Bit pattern of the float32 1.0; a non-negative float32 is in [0,1] iff its
\* bit pattern is at most this one.
OneBits == 127 * Pow2(23)

(***************************************************************************)
(* The Sample Source: datasets.MNIST(..., transform=ToTensor()).           *)
(***************************************************************************)
Pixels == (0 .. ImgRows - 1) \X (0 .. ImgCols - 1)

\* Raw uint8 intensities the images are drawn from.
Palette == << 0, 1, 51, 128, 254, 255 >>

\* Three source samples: distinct raw images with labels 1, 4, 7.
RawImage(s) ==
    [ rc \in Pixels |->
        Palette[((s * (rc[1] * ImgCols + rc[2]) + s) % Len(Palette)) + 1] ]

SourceLabels == << 1, 4, 7 >>

Samples == { [image |-> RawImage(s), label |-> SourceLabels[s]] : s \in 1 .. 3 }

RECURSIVE SeqsUpTo(_, _)
SeqsUpTo(S, n) ==
    IF n = 0 THEN { << >> }
    ELSE LET shorter == SeqsUpTo(S, n - 1)
         IN  shorter \cup { Append(q, x) : q \in { t \in shorter : Len(t) = n - 1 }, x \in S }

Datasets == SeqsUpTo(Samples, MaxSamples)

\* dataset.py:9  transform = transforms.Compose([transforms.ToTensor()]),
\* as it acts on each pixel value.
transform == [ p \in 0 .. PixelMax |-> ToTensor(p) ]

\* mnist_test[k]: the k-th sample with the transform applied to its image.
GetItem(ds, k) ==
    [ image |-> [ rc \in Pixels |-> transform[ds[k + 1].image[rc]] ],
      label |-> ds[k + 1].label ]

\* image.numpy().flatten(order='F'): the tensor in column-major order.
flatten_F(image) ==
    [ i \in 1 .. ImgRows * ImgCols |->
        image[ << (i - 1) % ImgRows, (i - 1) \div ImgRows >> ] ]

\* image.numpy().flatten(): the (1, rows, cols) tensor in row-major order.
flatten(image) ==
    [ i \in 1 .. ImgRows * ImgCols |->
        image[ << (i - 1) \div ImgCols, (i - 1) % ImgCols >> ] ]

(***************************************************************************)
(* Buffered binary file objects (open(path, 'wb')).                        *)
(***************************************************************************)
\* f.write(data) on a file whose on-disk content is disk and whose pending
\* buffer is buf: data joins the buffer if it fits, else the buffer is
\* flushed to disk first.
BufferedWrite(disk, buf, data) ==
    IF Len(buf) + Len(data) <= BufferBytes
    THEN [ disk |-> disk, buf |-> buf \o data ]
    ELSE [ disk |-> disk \o buf, buf |-> data ]

\* Closing the file (leaving its with-block) flushes the buffer.
CloseFile(disk, buf) == disk \o buf

\* The close of a file on the way out of a with-block that an exception is
\* leaving: the flush may fail too (the disk is full), and then only the
\* first n pending bytes have reached the disk and the rest is dropped.
CloseFileKeeping(disk, buf, n) == disk \o SubSeq(buf, 1, n)

VARIABLES
    \* ---- dataset.py ----
    byteorder,    \* sys.byteorder of the platform
    dataset,      \* the raw samples of the split, in enumeration order
    ex_pc,        \* position in dataset.py
    idx,          \* enumerate's index
    image_np,     \* the flattened image of the current sample
    label,        \* the label of the current sample
    vpos,         \* values of image_np already written
    dir_exists,   \* ./mnist_images_test exists
    labels_bin,   \* on-disk content of labels.bin, or NoFile
    image_bin,    \* on-disk content of image_<k>.bin, or NoFile
    label_buf,    \* bytes pending in label_file's buffer
    image_buf,    \* bytes pending in f's buffer
    stdout,       \* what the script has printed
    ex_error,     \* the exception that ended the run, or "none"
    run,          \* 1 for the first run, 2 for the re-run
    \* history, for the properties
    first_out,    \* the files as the first run left them at its end
    touched,      \* indices whose image file this run has opened
    opened        \* this run has opened labels.bin

exVars == << byteorder, dataset, ex_pc, idx, image_np, label, vpos, dir_exists,
             labels_bin, image_bin, label_buf, image_buf, stdout, ex_error,
             run, first_out, touched, opened >>

VARIABLES
    \* ---- network.py ----
    tr_pc,        \* position in __main__
    n_train,      \* len(train_loader.dataset)
    n_test,       \* len(test_loader.dataset)
    weights,      \* the model's parameters (in 1/100)
    grad,         \* the parameters' .grad
    training,     \* model.training
    epoch,        \* the loop variable of line 42
    batch_idx,    \* the loop variable of line 44 / batches evaluated (line 56)
    data,         \* the batch at hand: its kind (line 44), its number (line 56)
    output,       \* model(data): the weights and batch the graph was built on
    loss,         \* criterion(output, target)
    test_loss,    \* line 53
    correct,      \* line 54
    tr_stdout,    \* the last line printed
    onnx,         \* ./model/neural_network.onnx: whether it exists, the weights it holds
    tr_error,     \* the exception that ended the run, or "none"
    \* history, for the properties
    stages,       \* the stages entered so far
    failed_in,    \* what stages was when the exception was raised
    exports,      \* how many times torch.onnx.export has written the file
    w_before,     \* the weights when the mini-batch at hand was drawn
    own_grad,     \* the gradient of the mini-batch at hand
    updates,      \* optimizer steps taken in this epoch
    loss_sum,     \* sum of the per-sample losses evaluated in this epoch
    last_step     \* the weights as the latest optimizer step left them

trVars == << tr_pc, n_train, n_test, weights, grad, training, epoch, batch_idx,
             data, output, loss, test_loss, correct, tr_stdout, onnx, tr_error,
             stages, failed_in, exports, w_before, own_grad, updates, loss_sum,
             last_step >>

VARIABLES
    \* ---- NeuralNetwork.forward, one statement at a time ----
    fw_pc,        \* position in forward
    fw_net,       \* the layers' (in_features, out_features)
    fw_x,         \* width of x
    fw_left,      \* width of left
    fw_right,     \* width of right
    fw_error      \* the exception forward raised, or "none"

fwVars == << fw_pc, fw_net, fw_x, fw_left, fw_right, fw_error >>

vars == << exVars, trVars, fwVars >>

Indices == 0 .. MaxSamples - 1

\* Output directories the first run may find.
StaleLabels == << 9, 9, 9, 9, 9 >>
StaleImage == << 1, 2 >>
InitialDisks ==
    { [ dir |-> FALSE, labels |-> NoFile, images |-> [ k \in Indices |-> NoFile ] ],
      [ dir |-> TRUE,  labels |-> NoFile, images |-> [ k \in Indices |-> NoFile ] ],
      [ dir |-> TRUE,  labels |-> StaleLabels,
        images |-> [ k \in Indices |-> IF k = 0 THEN StaleImage ELSE NoFile ] ] }

ExporterStart ==
    /\ ex_pc = "load"
    /\ idx = 0
    /\ image_np = << >>
    /\ label = 0
    /\ vpos = 0
    /\ label_buf = << >>
    /\ image_buf = << >>
    /\ stdout = << >>
    /\ ex_error = "none"
    /\ touched = {}
    /\ opened = FALSE

InitExporter ==
    /\ byteorder \in { "little", "big" }
    /\ dataset \in Datasets
    /\ \E d \in InitialDisks :
          /\ dir_exists = d.dir
          /\ labels_bin = d.labels
          /\ image_bin = d.images
    /\ run = 1
    /\ first_out = [ labels |-> NoFile, images |-> [ k \in Indices |-> NoFile ] ]
    /\ ExporterStart

\* An exception handler that removes the image files written so far before
\* the process ends.
RaiseAndCleanUp(kind, inImage, inLabels, lbl) ==
    /\ ex_pc' = "failed"
    /\ ex_error' = kind
    /\ label' = lbl
    /\ image_bin' = [ k \in DOMAIN image_bin |->
                        IF k \in touched THEN NoFile ELSE image_bin[k] ]
    /\ image_buf' = << >>
    /\ labels_bin' = IF inLabels THEN CloseFile(labels_bin, label_buf) ELSE labels_bin
    /\ label_buf' = << >>
    /\ UNCHANGED << byteorder, dataset, idx, image_np, vpos, dir_exists,
                    stdout, run, first_out, touched, opened, trVars, fwVars >>

\* An exception propagates out of the script, which has bound label to lbl:
\* the with-blocks it leaves (f if inImage, label_file if inLabels) close
\* their files and the process ends. A close flushes what is pending; where
\* the exception is, or comes with, a failing write (OSError: no space
\* left), only a first part of the pending bytes reaches the disk and the
\* rest is lost.
Raise(kind, inImage, inLabels, lbl) ==
    /\ ex_pc' = "failed"
    /\ ex_error' = kind
    /\ label' = lbl
    /\ \E n \in 0 .. Len(image_buf) :
          image_bin' = IF inImage
                       THEN [ image_bin EXCEPT
                                ![idx] = CloseFileKeeping(@, image_buf, n) ]
                       ELSE image_bin
    /\ image_buf' = << >>
    /\ \E n \in 0 .. Len(label_buf) :
          labels_bin' = IF inLabels
                        THEN CloseFileKeeping(labels_bin, label_buf, n)
                        ELSE labels_bin
    /\ label_buf' = << >>
    /\ UNCHANGED << byteorder, dataset, idx, image_np, vpos, dir_exists,
                    stdout, run, first_out, touched, opened,
                    trVars, fwVars >>

\* dataset.py:12  datasets.MNIST(root='./data', train=False, download=True, ...)
LoadDataset ==
    /\ ex_pc = "load"
    /\ ex_pc' = "makedirs"
    /\ UNCHANGED << byteorder, dataset, idx, image_np, label, vpos, dir_exists,
                    labels_bin, image_bin, label_buf, image_buf, stdout,
                    ex_error, run, first_out, touched, opened,
                    trVars, fwVars >>

\* dataset.py:12  the dataset cannot be fetched or read.
LoadDatasetFail ==
    /\ ex_pc = "load"
    /\ Raise("DatasetUnavailable", FALSE, FALSE, label)

\* os.makedirs(path, exist_ok): FileExistsError when the directory exists and
\* exist_ok is false.
makedirs(exist_ok) ==
    IF dir_exists /\ ~exist_ok
    THEN Raise("FileExistsError", FALSE, FALSE, label)
    ELSE /\ dir_exists' = TRUE
         /\ ex_pc' = "open_labels"
         /\ UNCHANGED << byteorder, dataset, idx, image_np, label, vpos,
                         labels_bin, image_bin, label_buf, image_buf, stdout,
                         ex_error, run, first_out, touched, opened,
                    trVars, fwVars >>

\* dataset.py:15  os.makedirs('./mnist_images_test', exist_ok=True)
MakeDirs ==
    /\ ex_pc = "makedirs"
    /\ makedirs(TRUE)

\* dataset.py:15  the directory is absent and cannot be created.
MakeDirsFail ==
    /\ ex_pc = "makedirs"
    /\ ~dir_exists
    /\ Raise("IOError", FALSE, FALSE, label)

\* open(path, 'ab') whatever the mode asked for: the content is kept.
OpenedContentAppend(old, mode) ==
    IF old = NoFile THEN << >> ELSE old

\* open(path, mode) of a binary file for writing: 'wb' creates or truncates,
\* 'ab' creates or keeps the content.
OpenedContent(old, mode) ==
    IF mode = "wb" \/ old = NoFile THEN << >> ELSE old

\* dataset.py:18  with open('./mnist_images_test/labels.bin', 'wb') as label_file
OpenLabels ==
    /\ ex_pc = "open_labels"
    /\ labels_bin' = OpenedContent(labels_bin, "wb")
    /\ label_buf' = << >>
    /\ opened' = TRUE
    /\ ex_pc' = "next"
    /\ UNCHANGED << byteorder, dataset, idx, image_np, label, vpos, dir_exists,
                    image_bin, image_buf, stdout, ex_error, run, first_out,
                    touched, trVars, fwVars >>

\* dataset.py:18  the output location is not writable.
OpenLabelsFail ==
    /\ ex_pc = "open_labels"
    /\ Raise("IOError", FALSE, FALSE, label)

\* dataset.py:20,22  for idx, (image, label) in enumerate(mnist_test):
\*                       image_np = image.numpy().flatten()
NextSample ==
    /\ ex_pc = "next"
    /\ IF idx < Len(dataset)
       THEN /\ image_np' = flatten(GetItem(dataset, idx).image)
            /\ label' = GetItem(dataset, idx).label
            /\ ex_pc' = "open_image"
       ELSE /\ ex_pc' = "close_labels"
            /\ UNCHANGED << image_np, label >>
    /\ UNCHANGED << byteorder, dataset, idx, vpos, dir_exists, labels_bin,
                    image_bin, label_buf, image_buf, stdout, ex_error, run,
                    first_out, touched, opened,
                    trVars, fwVars >>

\* dataset.py:20,22  the iteration over the dataset raises (line 20), or the
\* conversion of the sample does after line 20 has bound its label (line
\* 22); label_file is closed on the way out.
NextSampleFail ==
    /\ ex_pc = "next"
    /\ \/ Raise("KeyboardInterrupt", FALSE, TRUE, label)
       \/ /\ idx < Len(dataset)
          /\ Raise("KeyboardInterrupt", FALSE, TRUE, GetItem(dataset, idx).label)

\* dataset.py:25,28  file_path = f'./mnist_images_test/image_{idx}.bin'
\*                   with open(file_path, 'wb') as f:
OpenImage ==
    /\ ex_pc = "open_image"
    /\ image_bin' = [ image_bin EXCEPT ![idx] = OpenedContent(@, "wb") ]
    /\ image_buf' = << >>
    /\ vpos' = 0
    /\ touched' = touched \cup { idx }
    /\ ex_pc' = "write_image"
    /\ UNCHANGED << byteorder, dataset, idx, image_np, label, dir_exists,
                    labels_bin, label_buf, stdout, ex_error, run, first_out, opened,
                    trVars, fwVars >>

\* dataset.py:28  the image file cannot be opened; label_file is closed on the
\* way out.
OpenImageFail ==
    /\ ex_pc = "open_image"
    /\ Raise("IOError", FALSE, TRUE, label)

\* dataset.py:29-30  for value in image_np: f.write(struct.pack('f', value))
\* and, after the last value, the end of the inner with-block (f is closed).
WriteImage ==
    /\ ex_pc = "write_image"
    /\ IF vpos < Len(image_np)
       THEN LET w == BufferedWrite(image_bin[idx], image_buf,
                                   pack_f(byteorder, image_np[vpos + 1]))
            IN  /\ image_bin' = [ image_bin EXCEPT ![idx] = w.disk ]
                /\ image_buf' = w.buf
                /\ vpos' = vpos + 1
                /\ ex_pc' = "write_image"
       ELSE /\ image_bin' = [ image_bin EXCEPT ![idx] = CloseFile(@, image_buf) ]
            /\ image_buf' = << >>
            /\ vpos' = vpos
            /\ ex_pc' = "write_label"
    /\ UNCHANGED << byteorder, dataset, idx, image_np, label, dir_exists,
                    labels_bin, label_buf, stdout, ex_error, run, first_out,
                    touched, opened,
                    trVars, fwVars >>

\* dataset.py:29-30  a write to the image file fails, or the run is
\* interrupted while the image is being written; both files are closed on
\* the way out.
WriteImageFail ==
    /\ ex_pc = "write_image"
    /\ Raise("IOError", TRUE, TRUE, label)

\* dataset.py:33  label_file.write(struct.pack('I', label))
WriteLabel ==
    /\ ex_pc = "write_label"
    /\ LET w == BufferedWrite(labels_bin, label_buf, pack_I(byteorder, label))
       IN  /\ labels_bin' = w.disk
           /\ label_buf' = w.buf
    /\ ex_pc' = "progress"
    /\ UNCHANGED << byteorder, dataset, idx, image_np, label, vpos, dir_exists,
                    image_bin, image_buf, stdout, ex_error, run, first_out,
                    touched, opened,
                    trVars, fwVars >>

\* dataset.py:33  the write of the label fails, or the run is interrupted at
\* it: the image file is closed already, label_file is closed on the way out
\* and the label is not appended.
WriteLabelFail ==
    /\ ex_pc = "write_label"
    /\ Raise("IOError", FALSE, TRUE, label)

\* dataset.py:36-37  if idx % 100 == 0: print(f"Saved image {idx + 1}/{len}")
\* and the step of enumerate to the next index.
Progress ==
    /\ ex_pc = "progress"
    /\ stdout' = IF idx % ProgressEvery = 0
                 THEN Append(stdout, << "Saved image", idx + 1, Len(dataset) >>)
                 ELSE stdout
    /\ idx' = idx + 1
    /\ ex_pc' = "next"
    /\ UNCHANGED << byteorder, dataset, image_np, label, vpos, dir_exists,
                    labels_bin, image_bin, label_buf, image_buf, ex_error, run,
                    first_out, touched, opened,
                    trVars, fwVars >>

\* dataset.py:36-37  the run is interrupted at the progress message, which
\* is not printed; label_file is closed on the way out.
ProgressFail ==
    /\ ex_pc = "progress"
    /\ Raise("KeyboardInterrupt", FALSE, TRUE, label)

\* dataset.py:18  the end of the outer with-block: label_file is closed.
CloseLabels ==
    /\ ex_pc = "close_labels"
    /\ labels_bin' = CloseFile(labels_bin, label_buf)
    /\ label_buf' = << >>
    /\ ex_pc' = "final_print"
    /\ UNCHANGED << byteorder, dataset, idx, image_np, label, vpos, dir_exists,
                    image_bin, image_buf, stdout, ex_error, run, first_out,
                    touched, opened,
                    trVars, fwVars >>

\* dataset.py:18  the flush at the end of the outer with-block fails, or the
\* run is interrupted there: label_file is closed all the same.
CloseLabelsFail ==
    /\ ex_pc = "close_labels"
    /\ Raise("IOError", FALSE, TRUE, label)

\* dataset.py:39  the final message raises: every file is complete and closed.
FinalPrintFail ==
    /\ ex_pc = "final_print"
    /\ Raise("KeyboardInterrupt", FALSE, FALSE, label)

\* dataset.py:39  print("All images and labels have been saved ...")
FinalPrint ==
    /\ ex_pc = "final_print"
    /\ stdout' = Append(stdout, << "All saved" >>)
    /\ ex_pc' = "done"
    /\ UNCHANGED << byteorder, dataset, idx, image_np, label, vpos, dir_exists,
                    labels_bin, image_bin, label_buf, image_buf, ex_error, run,
                    first_out, touched, opened,
                    trVars, fwVars >>

\* The script is started again on the unchanged dataset and the directory the
\* first run left behind.
Rerun ==
    /\ ex_pc = "done"
    /\ run = 1
    /\ run' = 2
    /\ first_out' = [ labels |-> labels_bin, images |-> image_bin ]
    /\ ex_pc' = "load"
    /\ idx' = 0
    /\ image_np' = << >>
    /\ label' = 0
    /\ vpos' = 0
    /\ label_buf' = << >>
    /\ image_buf' = << >>
    /\ stdout' = << >>
    /\ ex_error' = "none"
    /\ touched' = {}
    /\ opened' = FALSE
    /\ UNCHANGED << byteorder, dataset, dir_exists, labels_bin, image_bin,
                    trVars, fwVars >>

NextExporter ==
    \/ LoadDataset
    \/ LoadDatasetFail
    \/ MakeDirs
    \/ MakeDirsFail
    \/ OpenLabels
    \/ OpenLabelsFail
    \/ NextSample
    \/ NextSampleFail
    \/ OpenImage
    \/ OpenImageFail
    \/ WriteImage
    \/ WriteImageFail
    \/ WriteLabel
    \/ WriteLabelFail
    \/ Progress
    \/ ProgressFail
    \/ CloseLabels
    \/ CloseLabelsFail
    \/ FinalPrint
    \/ FinalPrintFail
    \/ Rerun

(***************************************************************************)
(* network.py: the model.                                                  *)
(***************************************************************************)
\* network.py:11-15  the (in_features, out_features) of the five nn.Linear.
Topology ==
    [ gemm1              |-> [ in |-> 28 * 28, out |-> 512 ],
      left_branch_gemm1  |-> [ in |-> 512,     out |-> 200 ],
      left_branch_gemm2  |-> [ in |-> 200,     out |-> 100 ],
      right_branch_gemm1 |-> [ in |-> 512,     out |-> 100 ],
      gemm2              |-> [ in |-> 100,     out |-> 10 ] ]

\* The width of a tensor that was not computed: the pass has raised.
ShapeError == 0 - 1

\* nn.Linear applied to a (batch, width) tensor: the output width, or a
\* RuntimeError when width is not the layer's in_features.
Linear(layer, width) ==
    IF width = ShapeError THEN ShapeError
    ELSE IF width = layer.in THEN layer.out ELSE ShapeError

\* torch.add(left, right) on (batch, l) and (batch, r) tensors: the widths
\* are broadcast together, so a width of 1 is stretched to the other width;
\* a RuntimeError when they differ and neither is 1.
torch_add(l, r) ==
    IF l = ShapeError \/ r = ShapeError THEN ShapeError
    ELSE IF l = r THEN l
    ELSE IF l = 1 THEN r
    ELSE IF r = 1 THEN l
    ELSE ShapeError

\* network.py:17-25  NeuralNetwork.forward on a (batch, 1, 28, 28) input:
\* the widths of left, right and of the returned tensor (ShapeError where
\* the pass has raised).
forward(net) ==
    LET x0    == 1 * 28 * 28                         \* torch.flatten(x, 1)
        x1    == Linear(net.gemm1, x0)
        left1 == Linear(net.left_branch_gemm1, x1)
        left  == Linear(net.left_branch_gemm2, left1)
        right == IF left = ShapeError THEN ShapeError
                 ELSE Linear(net.right_branch_gemm1, x1)
        sum   == torch_add(left, right)
    IN  [ left |-> left, right |-> right, out |-> Linear(net.gemm2, sum) ]

(***************************************************************************)
(* network.py: exact arithmetic for the reported figures.                  *)
(***************************************************************************)
RECURSIVE GCD(_, _)
GCD(a, b) == IF b = 0 THEN a ELSE GCD(b, a % b)

\* A non-negative rational num/den in lowest terms.
Rat(num, den) ==
    LET g == GCD(num, den) IN [ num |-> num \div g, den |-> den \div g ]

RatAdd(a, b) == Rat(a.num * b.den + b.num * a.den, a.den * b.den)

RatDivInt(a, n) == Rat(a.num, a.den * n)

RECURSIVE Pow10(_)
Pow10(d) == IF d = 0 THEN 1 ELSE 10 * Pow10(d - 1)

RECURSIVE BitLen(_)
BitLen(n) == IF n = 0 THEN 0 ELSE 1 + BitLen(n \div 2)

\* The binary digits of r/den after those already taken, r < den: sig counts
\* the significant digits taken so far and last is the latest of them. A
\* double keeps 53; the result is 0 when they hold the value exactly, 1 when
\* rounding to nearest (ties to even) goes up, and -1 when it goes down.
RECURSIVE RoundBits(_, _, _, _)
RoundBits(r, den, sig, last) ==
    IF r = 0 THEN 0
    ELSE IF sig = 53
         THEN IF 2 * r > den \/ (2 * r = den /\ last = 1) THEN 1 ELSE 0 - 1
         ELSE LET bit == (2 * r) \div den
              IN  RoundBits((2 * r) % den, den,
                            IF sig > 0 \/ bit = 1 THEN sig + 1 ELSE 0, bit)

\* The double that a division of two floats yields is the one nearest to the
\* quotient x: 0 when it is x, 1 when it is above x, -1 when it is below.
DoubleError(x) ==
    RoundBits(x.num % x.den, x.den, BitLen(x.num \div x.den),
              (x.num \div x.den) % 2)

\* f'{v:.<d>f}' for the double v nearest to x, in units of 10^-d: the exact
\* value of v rounded to d decimals, a value exactly halfway between two
\* going to the even one. When x itself is halfway, the side v lies on
\* decides; otherwise v, which is within 2^-53 of x relatively, and x round
\* alike.
FormatFixed(x, d) ==
    LET n == x.num * Pow10(d)
        q == n \div x.den
        r == n % x.den
        e == IF 2 * r = x.den THEN DoubleError(x) ELSE 0
    IN  IF 2 * r > x.den
           \/ (2 * r = x.den /\ (e = 1 \/ (e = 0 /\ q % 2 = 1)))
        THEN q + 1
        ELSE q

(***************************************************************************)
(* network.py: __main__.                                                   *)
(***************************************************************************)
\* Most mini-batches of an epoch, and of an evaluation, in the model.
MaxTrainBatches == 2
MaxTestBatches == 2

\* network.py:32  batch_size=64
TrainBatchSize == 64
\* network.py:34  batch_size=1000
TestBatchSize == 1000
\* network.py:42  for epoch in range(10)
EPOCHS == 10
\* network.py:40  lr=0.01, in the unit of the weights (1/100)
LrHundredths == 1

\* Sizes of the two splits (MNIST: 60,000 and 10,000).
TrainSizes ==
    { (MaxTrainBatches - 1) * TrainBatchSize, (MaxTrainBatches - 1) * TrainBatchSize + 1 }
TestSizes ==
    { 1, (MaxTestBatches - 1) * TestBatchSize, (MaxTestBatches - 1) * TestBatchSize + 1 }

\* len(loader): a DataLoader with drop_last=False yields ceil(n / batch_size)
\* batches.
NumBatches(n, batch_size) == (n + batch_size - 1) \div batch_size

\* The number of samples of batch b (0-based): the last one may be short.
BatchLen(n, batch_size, b) ==
    IF (b + 1) * batch_size <= n THEN batch_size ELSE n - b * batch_size

\* Weights nn.Linear's random initialisation may produce.
InitialWeights == { 0, 3 }

\* What shuffle=True may put into a mini-batch, as far as the gradient goes.
BatchKinds == { 0, 1 }

\* The numeric forward and backward passes are abstracted to small integers:
\* the gradient of the mean loss of a training batch of kind d at weights w,
GradOf(w, d) == d * (1 + (w % 2))

\* and the cross-entropy loss of each sample of held-out batch b at weights w
\* (the held-out split is not shuffled: the loss is a function of w and b),
SampleLoss(w, b) == (w + b) % 3

\* and the number of the batch's samples whose argmax equals the target.
NumCorrect(w, b, len) == (len * (2 - SampleLoss(w, b))) \div 2

\* nn.CrossEntropyLoss() (reduction='mean') on a batch of len samples each of
\* loss l: the mean of the per-sample losses.
criterion(l, len) == Rat(l * len, len)

Stage(name, e) == << name, e >>

InitTraining ==
    /\ tr_pc = "load"
    /\ n_train \in TrainSizes
    /\ n_test \in TestSizes
    /\ weights = 0
    /\ grad = 0
    /\ training = TRUE
    /\ epoch = 0
    /\ batch_idx = 0
    /\ data = 0
    /\ output = [ weights |-> 0, data |-> 0 ]
    /\ loss = Rat(0, 1)
    /\ test_loss = Rat(0, 1)
    /\ correct = 0
    /\ tr_stdout = << >>
    /\ onnx = [ exists |-> FALSE, weights |-> 0 ]
    /\ tr_error = "none"
    /\ stages = << Stage("INIT", 0) >>
    /\ failed_in = << >>
    /\ exports = 0
    /\ w_before = 0
    /\ own_grad = 0
    /\ updates = 0
    /\ loss_sum = 0
    /\ last_step = 0

\* The exception is caught and logged where it is raised, and the run goes on
\* with the same statement.
AbortAndContinue(kind) ==
    /\ tr_error' = kind
    /\ failed_in' = stages
    /\ UNCHANGED << tr_pc, n_train, n_test, weights, grad, training, epoch,
                    batch_idx, data, output, loss, test_loss, correct,
                    tr_stdout, onnx, stages, exports, w_before, own_grad,
                    updates, loss_sum, last_step, exVars, fwVars >>

\* network.py:27-71  no statement of __main__ is inside a try: an exception
\* ends the run where it is raised.
Abort(kind) ==
    /\ tr_pc' = "failed"
    /\ tr_error' = kind
    /\ failed_in' = stages
    /\ UNCHANGED << n_train, n_test, weights, grad, training, epoch, batch_idx,
                    data, output, loss, test_loss, correct, tr_stdout, onnx,
                    stages, exports, w_before, own_grad, updates, loss_sum,
                    last_step,
                    exVars, fwVars >>

\* network.py:28-34  the device, the transform and the two DataLoaders.
LoadData ==
    /\ tr_pc = "load"
    /\ tr_pc' = "construct"
    /\ UNCHANGED << n_train, n_test, weights, grad, training, epoch, batch_idx,
                    data, output, loss, test_loss, correct, tr_stdout, onnx,
                    tr_error, stages, failed_in, exports, w_before, own_grad,
                    updates, loss_sum, last_step,
                    exVars, fwVars >>

\* network.py:31-34  datasets.MNIST cannot fetch or read the dataset.
LoadDataFail ==
    /\ tr_pc = "load"
    /\ Abort("DatasetUnavailable")

\* network.py:37-40  model = NeuralNetwork(); criterion; optimizer.
\* The initial weights are the library's random ones; a new module is in
\* training mode and its parameters have no gradient yet.
Construct ==
    /\ tr_pc = "construct"
    /\ \E w0 \in InitialWeights : weights' = w0
    /\ grad' = 0
    /\ training' = TRUE
    /\ tr_stdout' = << "model" >>
    /\ tr_pc' = "epoch"
    /\ UNCHANGED << n_train, n_test, epoch, batch_idx, data, output, loss,
                    test_loss, correct, onnx, tr_error, stages, failed_in,
                    exports, w_before, own_grad, updates, loss_sum, last_step,
                    exVars, fwVars >>

\* network.py:37-40  an exception while the model is built (line 37: there
\* is no model), at print(model) (line 38: the model is built and nothing is
\* printed), or at the loss or the optimizer (lines 39-40: the model is
\* built and printed).
ConstructFail ==
    /\ tr_pc = "construct"
    /\ \/ Abort("RuntimeError")
       \/ /\ \E w0 \in InitialWeights : weights' = w0
          /\ \E printed \in BOOLEAN :
                tr_stdout' = IF printed THEN << "model" >> ELSE tr_stdout
          /\ grad' = 0
          /\ training' = TRUE
          /\ tr_pc' = "failed"
          /\ tr_error' = "RuntimeError"
          /\ failed_in' = stages
          /\ UNCHANGED << n_train, n_test, epoch, batch_idx, data, output,
                          loss, test_loss, correct, onnx, stages, exports,
                          w_before, own_grad, updates, loss_sum, last_step,
                          exVars, fwVars >>

\* range(9): one epoch short.
EpochsDoneEarly(e) == e >= EPOCHS - 1

\* range(10) is exhausted once epoch has reached 10.
EpochsDone(e) == e >= EPOCHS

\* network.py:42-43  for epoch in range(10): model.train()
EpochLoop ==
    /\ tr_pc = "epoch"
    /\ IF EpochsDone(epoch)
       THEN /\ tr_pc' = "export"
            /\ stages' = Append(stages, Stage("EXPORT", 0))
            /\ UNCHANGED << training, batch_idx, updates >>
       ELSE /\ training' = TRUE
            /\ batch_idx' = 0
            /\ updates' = 0
            /\ tr_pc' = "train_next"
            /\ stages' = Append(stages, Stage("TRAIN_EPOCH", epoch + 1))
    /\ UNCHANGED << n_train, n_test, weights, grad, epoch, data, output, loss,
                    test_loss, correct, tr_stdout, onnx, tr_error, failed_in,
                    exports, w_before, own_grad, loss_sum, last_step,
                    exVars, fwVars >>

\* network.py:42-43  the for statement or model.train() raises: nothing has
\* changed, the stage is not entered.
EpochFail ==
    /\ tr_pc = "epoch"
    /\ Abort("RuntimeError")

\* network.py:44-45  for batch_idx, (data, target) in enumerate(train_loader)
TrainNext ==
    /\ tr_pc = "train_next"
    /\ IF batch_idx < NumBatches(n_train, TrainBatchSize)
       THEN /\ \E d \in BatchKinds : data' = d
            /\ w_before' = weights
            /\ tr_pc' = "zero_grad"
       ELSE /\ tr_pc' = "eval"
            /\ UNCHANGED << data, w_before >>
    /\ UNCHANGED << n_train, n_test, weights, grad, training, epoch, batch_idx,
                    output, loss, test_loss, correct, tr_stdout, onnx, tr_error,
                    stages, failed_in, exports, own_grad, updates, loss_sum,
                    last_step,
                    exVars, fwVars >>

\* The mini-batch loop without optimizer.zero_grad().
ZeroGradSkipped ==
    /\ tr_pc = "zero_grad"
    /\ tr_pc' = "forward"
    /\ UNCHANGED << n_train, n_test, weights, grad, training, epoch, batch_idx,
                    data, output, loss, test_loss, correct, tr_stdout, onnx,
                    tr_error, stages, failed_in, exports, w_before, own_grad,
                    updates, loss_sum, last_step, exVars, fwVars >>

\* network.py:46  optimizer.zero_grad()
ZeroGrad ==
    /\ tr_pc = "zero_grad"
    /\ grad' = 0
    /\ tr_pc' = "forward"
    /\ UNCHANGED << n_train, n_test, weights, training, epoch, batch_idx, data,
                    output, loss, test_loss, correct, tr_stdout, onnx, tr_error,
                    stages, failed_in, exports, w_before, own_grad, updates,
                    loss_sum, last_step,
                    exVars, fwVars >>

\* network.py:47  output = model(data)
Forward ==
    /\ tr_pc = "forward"
    /\ IF forward(Topology).out = ShapeError
       THEN Abort("ShapeMismatch")
       ELSE /\ output' = [ weights |-> weights, data |-> data ]
            /\ tr_pc' = "loss"
            /\ UNCHANGED << n_train, n_test, weights, grad, training, epoch,
                            batch_idx, data, loss, test_loss, correct,
                            tr_stdout, onnx, tr_error, stages, failed_in,
                            exports, w_before, own_grad, updates, loss_sum,
                            last_step, exVars, fwVars >>

\* network.py:48  loss = criterion(output, target)
Loss ==
    /\ tr_pc = "loss"
    /\ loss' = criterion(SampleLoss(output.weights, output.data),
                         BatchLen(n_train, TrainBatchSize, batch_idx))
    /\ tr_pc' = "backward"
    /\ UNCHANGED << n_train, n_test, weights, grad, training, epoch, batch_idx,
                    data, output, test_loss, correct, tr_stdout, onnx, tr_error,
                    stages, failed_in, exports, w_before, own_grad, updates,
                    loss_sum, last_step,
                    exVars, fwVars >>

\* network.py:49  loss.backward(): the gradient of this batch's loss is
\* added to the parameters' .grad.
Backward ==
    /\ tr_pc = "backward"
    /\ grad' = grad + GradOf(output.weights, output.data)
    /\ own_grad' = GradOf(output.weights, output.data)
    /\ tr_pc' = "step"
    /\ UNCHANGED << n_train, n_test, weights, training, epoch, batch_idx, data,
                    output, loss, test_loss, correct, tr_stdout, onnx, tr_error,
                    stages, failed_in, exports, w_before, updates, loss_sum,
                    last_step,
                    exVars, fwVars >>

\* network.py:50  optimizer.step(): SGD, p = p - lr * p.grad; then the next
\* iteration of enumerate.
Step ==
    /\ tr_pc = "step"
    /\ weights' = weights - LrHundredths * grad
    /\ last_step' = weights - LrHundredths * grad
    /\ updates' = updates + 1
    /\ batch_idx' = batch_idx + 1
    /\ tr_pc' = "train_next"
    /\ UNCHANGED << n_train, n_test, grad, training, epoch, data, output, loss,
                    test_loss, correct, tr_stdout, onnx, tr_error, stages,
                    failed_in, exports, w_before, own_grad, loss_sum,
                    exVars, fwVars >>

\* network.py:44-50  an exception while a mini-batch is trained on.
TrainFail ==
    /\ tr_pc \in { "train_next", "zero_grad", "forward", "loss", "backward", "step" }
    /\ Abort("RuntimeError")

\* network.py:52-55  model.eval(); test_loss = 0; correct = 0; torch.no_grad()
EvalStart ==
    /\ tr_pc = "eval"
    /\ training' = FALSE
    /\ test_loss' = Rat(0, 1)
    /\ correct' = 0
    /\ loss_sum' = 0
    /\ batch_idx' = 0
    /\ tr_pc' = "eval_next"
    /\ stages' = Append(stages, Stage("EVAL_EPOCH", epoch + 1))
    /\ UNCHANGED << n_train, n_test, weights, grad, epoch, data, output, loss,
                    tr_stdout, onnx, tr_error, failed_in, exports, w_before,
                    own_grad, updates, last_step,
                    exVars, fwVars >>

\* network.py:52-54  an exception before the counters are both reset: at
\* model.eval() (line 52) nothing has changed; at line 53 the mode is
\* switched; at line 54 test_loss is 0 as well.
EvalStartFail ==
    /\ tr_pc = "eval"
    /\ \/ Abort("RuntimeError")
       \/ /\ training' = FALSE
          /\ \E reset \in BOOLEAN :
                test_loss' = IF reset THEN Rat(0, 1) ELSE test_loss
          /\ tr_pc' = "failed"
          /\ tr_error' = "RuntimeError"
          /\ failed_in' = stages
          /\ UNCHANGED << n_train, n_test, weights, grad, epoch, batch_idx,
                          data, output, loss, correct, tr_stdout, onnx, stages,
                          exports, w_before, own_grad, updates, loss_sum,
                          last_step, exVars, fwVars >>

\* The evaluation loop with the training statements left in: each held-out
\* batch is also back-propagated and stepped on.
EvalBatchStepping ==
    /\ tr_pc = "eval_next"
    /\ batch_idx < NumBatches(n_test, TestBatchSize)
    /\ LET len == BatchLen(n_test, TestBatchSize, batch_idx)
           l   == SampleLoss(weights, batch_idx)
       IN  /\ output' = [ weights |-> weights, data |-> batch_idx ]
           /\ test_loss' = RatAdd(test_loss, criterion(l, len))
           /\ correct' = correct + NumCorrect(weights, batch_idx, len)
           /\ loss_sum' = loss_sum + l * len
           /\ weights' = weights - LrHundredths * (1 + l)
    /\ data' = batch_idx
    /\ batch_idx' = batch_idx + 1
    /\ UNCHANGED << tr_pc, n_train, n_test, grad, training, epoch, loss,
                    tr_stdout, onnx, tr_error, stages, failed_in, exports,
                    w_before, own_grad, updates, last_step, exVars, fwVars >>

\* network.py:56-61  one held-out batch: the loop binds data to the batch
\* (the held-out batches come in order, shuffle=False), forward without
\* gradient tracking, test_loss += criterion(output, target).item(),
\* correct += the matches.
EvalBatch ==
    /\ tr_pc = "eval_next"
    /\ batch_idx < NumBatches(n_test, TestBatchSize)
    /\ LET len == BatchLen(n_test, TestBatchSize, batch_idx)
           l   == SampleLoss(weights, batch_idx)
       IN  /\ output' = [ weights |-> weights, data |-> batch_idx ]
           /\ test_loss' = RatAdd(test_loss, criterion(l, len))
           /\ correct' = correct + NumCorrect(weights, batch_idx, len)
           /\ loss_sum' = loss_sum + l * len
    /\ data' = batch_idx
    /\ batch_idx' = batch_idx + 1
    /\ UNCHANGED << tr_pc, n_train, n_test, weights, grad, training, epoch,
                    loss, tr_stdout, onnx, tr_error, stages, failed_in,
                    exports, w_before, own_grad, updates, last_step,
                    exVars, fwVars >>

\* network.py:56-61  an exception while the held-out split is evaluated. The
\* statements before the one that raises have taken effect: raised while the
\* batch is fetched (line 56) nothing has changed; raised by the forward pass
\* (line 58) data is bound to the batch; raised by the loss (line 59) output
\* is bound too; raised while the matches are counted (lines 60-61) test_loss
\* already holds the batch's loss and correct does not hold its matches.
EvalFail ==
    /\ tr_pc = "eval_next"
    /\ \/ Abort("RuntimeError")
       \/ /\ batch_idx < NumBatches(n_test, TestBatchSize)
          /\ \E at \in { "forward", "loss", "count" } :
                LET len == BatchLen(n_test, TestBatchSize, batch_idx)
                    l   == SampleLoss(weights, batch_idx)
                IN  /\ data' = batch_idx
                    /\ output' = IF at = "forward"
                                 THEN output
                                 ELSE [ weights |-> weights, data |-> batch_idx ]
                    /\ test_loss' = IF at = "count"
                                    THEN RatAdd(test_loss, criterion(l, len))
                                    ELSE test_loss
                    /\ loss_sum' = IF at = "count"
                                   THEN loss_sum + l * len
                                   ELSE loss_sum
          /\ tr_pc' = "failed"
          /\ tr_error' = "RuntimeError"
          /\ failed_in' = stages
          /\ UNCHANGED << n_train, n_test, weights, grad, training, epoch,
                          batch_idx, loss, correct, tr_stdout, onnx, stages,
                          exports, w_before, own_grad, updates, last_step,
                          exVars, fwVars >>

\* network.py:63-65  test_loss /= len(test_loader.dataset);
\* accuracy = 100. * correct / len(test_loader.dataset); print; next epoch.
Report ==
    /\ tr_pc = "eval_next"
    /\ batch_idx >= NumBatches(n_test, TestBatchSize)
    /\ test_loss' = RatDivInt(test_loss, n_test)
    /\ tr_stdout' = << "Epoch", epoch + 1,
                       FormatFixed(RatDivInt(test_loss, n_test), 4),
                       FormatFixed(RatDivInt(Rat(100 * correct, 1), n_test), 2) >>
    /\ epoch' = epoch + 1
    /\ tr_pc' = "epoch"
    /\ UNCHANGED << n_train, n_test, weights, grad, training, batch_idx, data,
                    output, loss, correct, onnx, tr_error, stages, failed_in,
                    exports, w_before, own_grad, updates, loss_sum, last_step,
                    exVars, fwVars >>

\* network.py:64-65  an exception after line 63 has divided test_loss: the
\* report is not printed and the next epoch is not started.
ReportFail ==
    /\ tr_pc = "eval_next"
    /\ batch_idx >= NumBatches(n_test, TestBatchSize)
    /\ test_loss' = RatDivInt(test_loss, n_test)
    /\ tr_pc' = "failed"
    /\ tr_error' = "RuntimeError"
    /\ failed_in' = stages
    /\ UNCHANGED << n_train, n_test, weights, grad, training, epoch, batch_idx,
                    data, output, loss, correct, tr_stdout, onnx, stages,
                    exports, w_before, own_grad, updates, loss_sum, last_step,
                    exVars, fwVars >>

\* network.py:67-70  dummy_input; os.makedirs('./model', exist_ok=True);
\* torch.onnx.export(model, dummy_input, "./model/neural_network.onnx")
Export ==
    /\ tr_pc = "export"
    /\ onnx' = [ exists |-> TRUE, weights |-> weights ]
    /\ exports' = exports + 1
    /\ tr_pc' = "exported"
    /\ UNCHANGED << n_train, n_test, weights, grad, training, epoch, batch_idx,
                    data, output, loss, test_loss, correct, tr_stdout, tr_error,
                    stages, failed_in, w_before, own_grad, updates, loss_sum,
                    last_step,
                    exVars, fwVars >>

\* network.py:69-70  os.makedirs fails, or an operator has no ONNX form: the
\* exception is raised before the file is opened.
ExportFail ==
    /\ tr_pc = "export"
    /\ Abort("ExportError")

\* network.py:71  the final message raises: the run fails after the export,
\* and the file it has written stays.
FinishFail ==
    /\ tr_pc = "exported"
    /\ Abort("RuntimeError")

\* network.py:71  print("Model saved as neural_network.onnx")
Finish ==
    /\ tr_pc = "exported"
    /\ tr_stdout' = << "Model saved" >>
    /\ tr_pc' = "done"
    /\ stages' = Append(stages, Stage("DONE", 0))
    /\ UNCHANGED << n_train, n_test, weights, grad, training, epoch, batch_idx,
                    data, output, loss, test_loss, correct, onnx, tr_error,
                    failed_in, exports, w_before, own_grad, updates, loss_sum,
                    last_step,
                    exVars, fwVars >>

NextTraining ==
    \/ LoadData
    \/ LoadDataFail
    \/ Construct
    \/ ConstructFail
    \/ EpochLoop
    \/ EpochFail
    \/ TrainNext
    \/ ZeroGrad
    \/ Forward
    \/ Loss
    \/ Backward
    \/ Step
    \/ TrainFail
    \/ EvalStart
    \/ EvalStartFail
    \/ EvalBatch
    \/ EvalFail
    \/ Report
    \/ ReportFail
    \/ Export
    \/ ExportFail
    \/ Finish
    \/ FinishFail

(***************************************************************************)
(* The two scripts as one specification.                                   *)
(***************************************************************************)
ExporterOff ==
    /\ byteorder = "little"
    /\ dataset = << >>
    /\ dir_exists = FALSE
    /\ labels_bin = NoFile
    /\ image_bin = [ k \in Indices |-> NoFile ]
    /\ run = 1
    /\ first_out = [ labels |-> NoFile, images |-> [ k \in Indices |-> NoFile ] ]
    /\ idx = 0
    /\ image_np = << >>
    /\ label = 0
    /\ vpos = 0
    /\ label_buf = << >>
    /\ image_buf = << >>
    /\ stdout = << >>
    /\ ex_error = "none"
    /\ touched = {}
    /\ opened = FALSE
    /\ ex_pc = "off"

TrainingOff ==
    /\ tr_pc = "off"
    /\ n_train = 0
    /\ n_test = 0
    /\ weights = 0
    /\ grad = 0
    /\ training = TRUE
    /\ epoch = 0
    /\ batch_idx = 0
    /\ data = 0
    /\ output = [ weights |-> 0, data |-> 0 ]
    /\ loss = Rat(0, 1)
    /\ test_loss = Rat(0, 1)
    /\ correct = 0
    /\ tr_stdout = << >>
    /\ onnx = [ exists |-> FALSE, weights |-> 0 ]
    /\ tr_error = "none"
    /\ stages = << >>
    /\ failed_in = << >>
    /\ exports = 0
    /\ w_before = 0
    /\ own_grad = 0
    /\ updates = 0
    /\ loss_sum = 0
    /\ last_step = 0

ForwardOff ==
    /\ fw_pc = "off"
    /\ fw_net = Topology
    /\ fw_x = 0
    /\ fw_left = 0
    /\ fw_right = 0
    /\ fw_error = "none"

(***************************************************************************)
(* NeuralNetwork.forward, statement by statement, on networks whose merge  *)
(* widths are drawn from MergeWidths.                                      *)
(***************************************************************************)
\* Widths tried for left_branch_gemm2's output, right_branch_gemm1's output
\* and gemm2's input.
MergeWidths == { 1, 2, 100 }

Networks ==
    { [ Topology EXCEPT !.left_branch_gemm2.out = l,
                        !.right_branch_gemm1.out = r,
                        !.gemm2.in = h ] : l \in MergeWidths, r \in MergeWidths, h \in MergeWidths }

InitForward ==
    /\ fw_pc = "flatten"
    /\ fw_net \in Networks
    /\ fw_x = 0
    /\ fw_left = 0
    /\ fw_right = 0
    /\ fw_error = "none"

\* A statement of forward stores width in x, left or right and goes on to
\* the statement at next, or raises when width is ShapeError.
FwStore(target, width, next) ==
    /\ IF width = ShapeError
       THEN /\ fw_pc' = "raised"
            /\ fw_error' = "ShapeMismatch"
            /\ UNCHANGED << fw_x, fw_left, fw_right >>
       ELSE /\ fw_pc' = next
            /\ fw_x' = IF target = "x" THEN width ELSE fw_x
            /\ fw_left' = IF target = "left" THEN width ELSE fw_left
            /\ fw_right' = IF target = "right" THEN width ELSE fw_right
            /\ UNCHANGED fw_error
    /\ UNCHANGED << fw_net, exVars, trVars >>

\* network.py:18  x = torch.flatten(x, 1)
FwFlatten ==
    /\ fw_pc = "flatten"
    /\ FwStore("x", 1 * 28 * 28, "gemm1")

\* network.py:19  x = torch.relu(self.gemm1(x))
FwGemm1 ==
    /\ fw_pc = "gemm1"
    /\ FwStore("x", Linear(fw_net.gemm1, fw_x), "left1")

\* network.py:20  left = torch.relu(self.left_branch_gemm1(x))
FwLeft1 ==
    /\ fw_pc = "left1"
    /\ FwStore("left", Linear(fw_net.left_branch_gemm1, fw_x), "left2")

\* network.py:21  left = torch.relu(self.left_branch_gemm2(left))
FwLeft2 ==
    /\ fw_pc = "left2"
    /\ FwStore("left", Linear(fw_net.left_branch_gemm2, fw_left), "right")

\* network.py:22  right = torch.relu(self.right_branch_gemm1(x))
FwRight ==
    /\ fw_pc = "right"
    /\ FwStore("right", Linear(fw_net.right_branch_gemm1, fw_x), "add")

\* network.py:23  x = torch.add(left, right)
FwAdd ==
    /\ fw_pc = "add"
    /\ FwStore("x", torch_add(fw_left, fw_right), "gemm2")

\* network.py:24  x = self.gemm2(x)
FwGemm2 ==
    /\ fw_pc = "gemm2"
    /\ FwStore("x", Linear(fw_net.gemm2, fw_x), "return")

\* network.py:25  return x
FwReturn ==
    /\ fw_pc = "return"
    /\ FwStore("x", fw_x, "returned")

NextForward ==
    \/ FwFlatten
    \/ FwGemm1
    \/ FwLeft1
    \/ FwLeft2
    \/ FwRight
    \/ FwAdd
    \/ FwGemm2
    \/ FwReturn

Init ==
    \/ InitExporter /\ TrainingOff /\ ForwardOff
    \/ ExporterOff /\ InitTraining /\ ForwardOff

Next == NextExporter \/ NextTraining

Spec == Init /\ [][Next]_vars

InitForwardOnly == ExporterOff /\ TrainingOff /\ InitForward

SpecForward == InitForwardOnly /\ [][NextForward]_vars


(***************************************************************************)
(* Properties.                                                             *)
(***************************************************************************)
\* The k-th (0-based) 4-byte record of a file.
Record(bytes, k) == SubSeq(bytes, 4 * k + 1, 4 * k + 4)

NumSamples == Len(dataset)

\* C1: when the exporter has completed over a split of N samples, labels.bin
\* is exactly 4*N bytes long and its k-th 4-byte record decodes, as an
\* unsigned 32-bit integer, to the label of the k-th sample in enumeration
\* order.
LabelsExported ==
    ex_pc = "done" =>
        /\ Len(labels_bin) = 4 * NumSamples
        /\ \A k \in 0 .. NumSamples - 1 :
              unpack4(byteorder, Record(labels_bin, k)) = dataset[k + 1].label

\* C1 witness: the exporter has completed over three samples labelled 1, 4, 7
\* and labels.bin is 12 bytes decoding to 1, 4, 7.
LabelsExportedWitness ==
    /\ ex_pc = "done"
    /\ NumSamples = 3
    /\ Len(labels_bin) = 12
    /\ [ k \in 1 .. 3 |-> dataset[k].label ] = << 1, 4, 7 >>
    /\ [ k \in 1 .. 3 |-> unpack4(byteorder, Record(labels_bin, k - 1)) ] = << 1, 4, 7 >>

\* image_<k>.bin on disk is complete: rows*cols 4-byte values, the one at
\* position cols*r + c being, bit for bit, the float32 that sample k holds at
\* row r, column c, a value in [0,1].
ImageHoldsSample(k) ==
    /\ Len(image_bin[k]) = 4 * ImgRows * ImgCols
    /\ \A rc \in Pixels :
          LET v == unpack4(byteorder,
                           Record(image_bin[k], ImgCols * rc[1] + rc[2]))
          IN  /\ v = GetItem(dataset, k).image[rc]
              /\ 0 <= v
              /\ v <= OneBits

\* C2: when the exporter has completed, image_<k>.bin of every sample k holds
\* exactly rows*cols float32 values (4 bytes each); the value at position
\* cols*r + c is the float32 the source sample holds at row r, column c,
\* bit for bit, and lies in [0,1].
ImagesExported ==
    ex_pc = "done" =>
        \A k \in 0 .. NumSamples - 1 : ImageHoldsSample(k)

\* C2 witness: the exporter has completed over at least two samples and the
\* second image file holds a value strictly between 0 and 1.
ImagesExportedWitness ==
    /\ ex_pc = "done"
    /\ NumSamples >= 2
    /\ Len(image_bin[1]) = 4 * ImgRows * ImgCols
    /\ \E i \in 0 .. ImgRows * ImgCols - 1 :
          LET v == unpack4(byteorder, Record(image_bin[1], i))
          IN  0 < v /\ v < OneBits

\* The stages of a successful training run, in order.
ExpectedStages ==
    << Stage("INIT", 0) >>
    \o [ i \in 1 .. 2 * EPOCHS |->
           IF i % 2 = 1 THEN Stage("TRAIN_EPOCH", (i + 1) \div 2)
           ELSE Stage("EVAL_EPOCH", i \div 2) ]
    \o << Stage("EXPORT", 0), Stage("DONE", 0) >>

IsPrefix(p, q) == Len(p) <= Len(q) /\ p = SubSeq(q, 1, Len(p))

\* C3: the stages a training run has entered are always an initial part of
\* INIT, (TRAIN_EPOCH e, EVAL_EPOCH e) for e = 1..10, EXPORT, DONE; the model
\* file is written at most once, only in EXPORT, and a run that has finished
\* has entered all of the stages and written the file exactly once.
StageOrder ==
    tr_pc # "off" =>
        /\ IsPrefix(stages, ExpectedStages)
        /\ exports <= 1
        /\ exports = 1 => Stage("EXPORT", 0) = stages[2 * EPOCHS + 2]
        /\ tr_pc = "done" => stages = ExpectedStages /\ exports = 1 /\ epoch = EPOCHS

\* C3 witness: a training run has finished.
StageOrderWitness ==
    /\ tr_pc = "done"
    /\ Len(stages) = 2 * EPOCHS + 3
    /\ exports = 1

\* C4: once an exception has been raised the run is over: it is in its final
\* position and has entered no stage since; if it failed before EXPORT the
\* model file has not been written, and if it failed on loading the dataset
\* no epoch has begun and no optimizer step was taken. (A run that fails in
\* EXPORT itself has either written nothing or written the file once, in
\* full: the one failure left after the export is that of the final message.)
FailureIsTerminal ==
    tr_error # "none" =>
        /\ tr_pc = "failed"
        /\ stages = failed_in
        /\ stages[Len(stages)] # Stage("EXPORT", 0) => exports = 0 /\ ~onnx.exists
        /\ onnx.exists => exports = 1 /\ onnx.weights = weights
        /\ exports = 1 => onnx.exists
        /\ tr_error = "DatasetUnavailable" =>
              stages = << Stage("INIT", 0) >> /\ epoch = 0 /\ updates = 0

\* C4 witness: a run has failed in the evaluation of its fifth epoch.
FailureIsTerminalWitness ==
    /\ tr_pc = "failed"
    /\ tr_error = "RuntimeError"
    /\ stages[Len(stages)] = Stage("EVAL_EPOCH", 5)
    /\ ~onnx.exists

\* C5: the test loss an epoch reports (printed to 4 decimals) is the mean of
\* the per-sample losses of the held-out split in that epoch.
ReportedLossIsMean ==
    (tr_pc = "epoch" /\ epoch > 0) =>
        /\ test_loss = Rat(loss_sum, n_test)
        /\ tr_stdout[3] = FormatFixed(Rat(loss_sum, n_test), 4)

\* C6: once the model is constructed, a step of the run changes the weights
\* only if it is the optimizer step of a training mini-batch, and the step that writes the model file
\* leaves the weights alone and writes the weights the latest optimizer step
\* of the tenth epoch left.
WeightsFrame ==
    [][ /\ (tr_pc # "construct" /\ weights' # weights) =>
              tr_pc = "step" /\ training /\ tr_pc' = "train_next"
        /\ onnx' # onnx =>
              /\ weights' = weights
              /\ onnx'.weights = last_step
              /\ stages[Len(stages) - 1] = Stage("EVAL_EPOCH", EPOCHS) ]_vars

\* C6 witness: a run has finished; the file holds the weights of the latest
\* optimizer step, which training has moved below every initial value.
WeightsFrameWitness ==
    /\ tr_pc = "done"
    /\ onnx.exists
    /\ onnx.weights = last_step
    /\ onnx.weights = weights
    /\ weights < 0

\* C7: when the left branch's output width differs from the right branch's,
\* forward raises and returns no class scores.
MergeMismatchRaises ==
    fw_net.left_branch_gemm2.out # fw_net.right_branch_gemm1.out =>
        fw_pc # "returned"

\* C8: when the re-run on the unchanged dataset has completed, labels.bin and
\* every image_<k>.bin are byte for byte what the first run left; the re-run
\* never fails on the directory already existing.
RerunIdentical ==
    run = 2 =>
        /\ ex_error # "FileExistsError"
        /\ ex_pc = "done" =>
              /\ labels_bin = first_out.labels
              /\ image_bin = first_out.images

\* C8 witness: the re-run has completed over at least two samples, having
\* printed its progress message.
RerunIdenticalWitness ==
    /\ run = 2
    /\ ex_pc = "done"
    /\ NumSamples >= 2
    /\ Len(stdout) = 2
    /\ Len(first_out.labels) = 4 * NumSamples

\* C9: while a mini-batch is trained on, every earlier mini-batch of the epoch
\* has had its update applied and the weights are those the batch was drawn
\* at; the gradient is clear from zero_grad until backward; forward, loss and
\* backward work on this batch; the update applied is lr times the gradient
\* of this batch alone.
TrainStepOrder ==
    /\ tr_pc \in { "zero_grad", "forward", "loss", "backward", "step" } =>
          updates = batch_idx /\ weights = w_before
    /\ tr_pc \in { "forward", "loss", "backward" } => grad = 0
    /\ tr_pc \in { "loss", "backward", "step" } =>
          output = [ weights |-> w_before, data |-> data ]
    /\ tr_pc = "step" => grad = own_grad /\ own_grad = GradOf(w_before, data)
    /\ (tr_pc = "train_next" /\ batch_idx > 0) =>
          /\ updates = batch_idx
          /\ weights = w_before - LrHundredths * GradOf(w_before, data)

\* C9 witness: the second mini-batch of a later epoch has just been stepped
\* on, with a gradient that is not zero, after a first one whose gradient was
\* not zero either.
TrainStepOrderWitness ==
    /\ tr_pc = "train_next"
    /\ epoch >= 1
    /\ batch_idx = 2
    /\ own_grad # 0
    /\ weights = w_before - LrHundredths * own_grad

\* The label stream: what has been appended to label_file and not lost, on
\* disk or still pending in its buffer.
LabelStream == labels_bin \o label_buf

\* The 4-byte records of the labels of the first n samples, one after another.
RECURSIVE LabelBytes(_)
LabelBytes(n) ==
    IF n = 0 THEN << >>
    ELSE LabelBytes(n - 1) \o pack_I(byteorder, GetItem(dataset, n - 1).label)

\* C10 as stated: once labels.bin has been opened, when the label stream
\* holds m records, image_0.bin .. image_<m-1>.bin all exist complete and no
\* image file of an index above m exists.
LabelStreamBoundsImages ==
    opened =>
        LET m == Len(LabelStream) \div 4
        IN  /\ \A k \in 0 .. m - 1 :
                  Len(image_bin[k]) = 4 * ImgRows * ImgCols
            /\ \A k \in Indices : image_bin[k] # NoFile => k <= m

\* The order of the appends: the label stream is an initial part of the
\* labels' records in index order; each whole record k in it has its
\* image_<k>.bin written completely, with the sample's values, by this run;
\* every file the run has opened exists; and while the run has not failed the
\* stream holds whole records only, and the run has opened no image file
\* beyond the one of index m, m being the number of records.
LabelsFollowImages ==
    opened =>
        LET m == Len(LabelStream) \div 4
        IN  /\ IsPrefix(LabelStream, LabelBytes(NumSamples))
            /\ \A k \in 0 .. m - 1 : k \in touched /\ ImageHoldsSample(k)
            /\ \A k \in touched : image_bin[k] # NoFile
            /\ labels_bin # NoFile
            /\ ex_pc # "failed" =>
                  /\ Len(LabelStream) = 4 * m
                  /\ touched \subseteq 0 .. m

\* The step on which the run fails removes no file and takes no byte back:
\* every file that exists still exists and begins with the bytes it held on
\* disk (pending bytes may be lost).
LeftInPlace ==
    ex_pc' = "failed" =>
        /\ labels_bin # NoFile =>
              labels_bin' # NoFile /\ IsPrefix(labels_bin, labels_bin')
        /\ \A k \in Indices :
              image_bin[k] # NoFile =>
                  image_bin'[k] # NoFile /\ IsPrefix(image_bin[k], image_bin'[k])

\* C10, amended: at every point of a run the labels are appended in index
\* order with no gaps and label k only after image_<k>.bin has been written
\* completely by this run; while the run has not failed, when the stream
\* holds m records the only other image file the run has opened is
\* image_<m>.bin (files of higher index can only be those an earlier run
\* left). A failing step deletes no file and rolls nothing back; labels.bin
\* then holds an initial part of the appended records, the pending ones
\* possibly lost, so it may hold fewer records than there are complete images.
LabelAfterImage ==
    []LabelsFollowImages /\ [][LeftInPlace]_vars

\* C10 witness: the run has failed at the write of the third label, whose
\* flush put one of the two pending records on disk: labels.bin holds one
\* record and all three images are complete.
LabelAfterImageWitness ==
    /\ ex_pc = "failed"
    /\ opened
    /\ NumSamples = 3
    /\ labels_bin = LabelBytes(1)
    /\ touched = { 0, 1, 2 }
    /\ ImageHoldsSample(0) /\ ImageHoldsSample(1) /\ ImageHoldsSample(2)
====
